---- MODULE Spec2Model ----
(***************************************************************************)
(* Model of the compliance-backend request pipeline:                       *)
(*   - the POST /check-compliance handler (src/src/api.ts),                *)
(*   - the shared headless browser and the per-request page               *)
(*     (src/src/utils.ts: initBrowser, closeBrowser, getRenderedText),     *)
(*   - the text cleaner (cleanText / cleanWebpageContent),                 *)
(*   - the completion-output cleaner (cleanComplianceResponse).            *)
(* Strings are sequences of one-character strings.                         *)
(***************************************************************************)
EXTENDS Integers, Sequences, FiniteSets, TLC

\* ------------------------------------------------------------------------
\* Bounds
\* ------------------------------------------------------------------------
\* longest raw text handed to the text cleaner
MaxLen == 6
\* number of tokens making up the content of a JSON string value
MaxTokens == 3
\* number of requests the clients send in total
MaxRequests == 3

\* ------------------------------------------------------------------------
\* Character classes of the JavaScript regular expressions
\* ------------------------------------------------------------------------
Digits == {"0", "1", "2", "3", "4", "5", "6", "7", "8", "9"}

\* the letters the model's strings use
Letters == {"a", "b", "c", "e", "f", "h", "j", "k", "l", "m", "n", "o", "p", "r", "s",
            "t", "u", "w", "x"}

\* \s restricted to the characters of the model
IsSpace(c) == c \in {" ", "\n", "\t", "\r"}

\* \w
IsWord(c) == c \in Digits \cup Letters \cup {"_"}

\* \b at the gap before position i (1-based) of s
WordBoundary(s, i) ==
    LET before == i > 1 /\ i - 1 <= Len(s) /\ IsWord(s[i - 1])
        after  == i >= 1 /\ i <= Len(s) /\ IsWord(s[i])
    IN  before # after

\* length of the run of characters satisfying the class, starting at i
RECURSIVE SpaceRun(_, _)
SpaceRun(s, i) ==
    IF i <= Len(s) /\ IsSpace(s[i]) THEN 1 + SpaceRun(s, i + 1) ELSE 0

RECURSIVE NewlineRun(_, _)
NewlineRun(s, i) ==
    IF i <= Len(s) /\ s[i] = "\n" THEN 1 + NewlineRun(s, i + 1) ELSE 0

Rest(s, i) == SubSeq(s, i, Len(s))

\* ------------------------------------------------------------------------
\* cleanText: the six replacement steps
\* ------------------------------------------------------------------------
\* .replace(/\n{2,}/g, '\n')
RECURSIVE CollapseNewlines(_)
CollapseNewlines(s) ==
    IF s = <<>> THEN <<>>
    ELSE LET n == NewlineRun(s, 1)
         IN  IF n >= 2 THEN <<"\n">> \o CollapseNewlines(Rest(s, n + 1))
             ELSE <<s[1]>> \o CollapseNewlines(Rest(s, 2))

\* .replace(/\s+/g, ' ')
RECURSIVE CollapseSpaces(_)
CollapseSpaces(s) ==
    IF s = <<>> THEN <<>>
    ELSE LET n == SpaceRun(s, 1)
         IN  IF n >= 1 THEN <<" ">> \o CollapseSpaces(Rest(s, n + 1))
             ELSE <<s[1]>> \o CollapseSpaces(Rest(s, 2))

\* .replace(/([.!?])\s+/g, '$1\n')
RECURSIVE SplitSentences(_)
SplitSentences(s) ==
    IF s = <<>> THEN <<>>
    ELSE LET n == SpaceRun(s, 2)
         IN  IF s[1] \in {".", "!", "?"} /\ n >= 1
             THEN <<s[1], "\n">> \o SplitSentences(Rest(s, n + 2))
             ELSE <<s[1]>> \o SplitSentences(Rest(s, 2))

\* /\b(\d{1,2}\s?){3,}\b/ anchored at position i after count repetitions:
\* the end (exclusive) of the match the backtracking matcher finds first,
\* or 0 when there is none.  Greedy order: two digits before one, the
\* optional \s taken before skipped, one more repetition before stopping.
RECURSIVE NumberRunFrom(_, _, _)
NumberRunFrom(s, i, count) ==
    LET c3   == IF count >= 3 THEN 3 ELSE count + 1
        dig(k) == k <= Len(s) /\ s[k] \in Digits
        sp(k)  == k <= Len(s) /\ IsSpace(s[k])
        t21 == IF dig(i) /\ dig(i + 1) /\ sp(i + 2)
               THEN NumberRunFrom(s, i + 3, c3) ELSE 0
        t20 == IF dig(i) /\ dig(i + 1)
               THEN NumberRunFrom(s, i + 2, c3) ELSE 0
        t11 == IF dig(i) /\ sp(i + 1)
               THEN NumberRunFrom(s, i + 2, c3) ELSE 0
        t10 == IF dig(i)
               THEN NumberRunFrom(s, i + 1, c3) ELSE 0
        stop == IF count >= 3 /\ WordBoundary(s, i) THEN i ELSE 0
    IN  IF t21 # 0 THEN t21
        ELSE IF t20 # 0 THEN t20
        ELSE IF t11 # 0 THEN t11
        ELSE IF t10 # 0 THEN t10
        ELSE stop

\* .replace(/\b(\d{1,2}\s?){3,}\b/g, '')
RECURSIVE RemoveNumberRuns(_, _)
RemoveNumberRuns(s, i) ==
    IF i > Len(s) THEN <<>>
    ELSE LET e == IF WordBoundary(s, i) THEN NumberRunFrom(s, i, 0) ELSE 0
         IN  IF e # 0 THEN RemoveNumberRuns(s, e)
             ELSE <<s[i]>> \o RemoveNumberRuns(s, i + 1)

\* .replace(/[\t\r]/g, '')
RemoveNonPrintable(s) == SelectSeq(s, LAMBDA c : c \notin {"\t", "\r"})

\* .trim()
RECURSIVE TrimLeft(_)
TrimLeft(s) ==
    IF s # <<>> /\ IsSpace(s[1]) THEN TrimLeft(Tail(s)) ELSE s

RECURSIVE TrimRight(_)
TrimRight(s) ==
    IF s # <<>> /\ IsSpace(s[Len(s)]) THEN TrimRight(SubSeq(s, 1, Len(s) - 1)) ELSE s

Trim(s) == TrimRight(TrimLeft(s))

cleanText(rawText) ==
    Trim(RemoveNonPrintable(RemoveNumberRuns(
        SplitSentences(CollapseSpaces(CollapseNewlines(rawText))), 1)))

\* ------------------------------------------------------------------------
\* cleanComplianceResponse: fence stripping and JSON.parse
\* ------------------------------------------------------------------------
\* the backquote character (U+0060), which a TLA+ string cannot contain
Backquote == "BQ"

Fence == <<Backquote, Backquote, Backquote>>

FenceJson == Fence \o <<"j", "s", "o", "n">>

HasPrefix(s, p) == Len(s) >= Len(p) /\ SubSeq(s, 1, Len(p)) = p

\* rawResponse.replace(/FenceJson|Fence/g, '')
RECURSIVE StripFences(_)
StripFences(s) ==
    IF s = <<>> THEN <<>>
    ELSE IF HasPrefix(s, FenceJson) THEN StripFences(Rest(s, Len(FenceJson) + 1))
    ELSE IF HasPrefix(s, Fence) THEN StripFences(Rest(s, Len(Fence) + 1))
    ELSE <<s[1]>> \o StripFences(Rest(s, 2))

\* JSON whitespace
IsJsonWs(c) == c \in {" ", "\n", "\t", "\r"}

RECURSIVE SkipWs(_, _)
SkipWs(s, i) == IF i <= Len(s) /\ IsJsonWs(s[i]) THEN SkipWs(s, i + 1) ELSE i

ParseFail == [ok |-> FALSE, val |-> <<>>, next |-> 0]

\* a string literal opening at position i (s[i] is the quote): the
\* characters up to the closing quote; control characters and backslash
\* escapes are not part of the model's JSON subset and end the parse
RECURSIVE ParseChars(_, _, _)
ParseChars(s, i, acc) ==
    IF i > Len(s) THEN ParseFail
    ELSE IF s[i] = "\"" THEN [ok |-> TRUE, val |-> <<"string", acc>>, next |-> i + 1]
    ELSE IF s[i] \in {"\n", "\t", "\r", "\\"} THEN ParseFail
    ELSE ParseChars(s, i + 1, Append(acc, s[i]))

\* JSON value at position i: string, array, or object
RECURSIVE ParseValue(_, _)
RECURSIVE ParseElements(_, _, _)
RECURSIVE ParseMembers(_, _, _)
ParseValue(s, i) ==
    IF i > Len(s) THEN ParseFail
    ELSE IF s[i] = "\"" THEN ParseChars(s, i + 1, <<>>)
    ELSE IF s[i] = "[" THEN
        LET j == SkipWs(s, i + 1)
        IN  IF j <= Len(s) /\ s[j] = "]"
            THEN [ok |-> TRUE, val |-> <<"array", <<>>>>, next |-> j + 1]
            ELSE ParseElements(s, j, <<>>)
    ELSE IF s[i] = "{" THEN
        LET j == SkipWs(s, i + 1)
        IN  IF j <= Len(s) /\ s[j] = "}"
            THEN [ok |-> TRUE, val |-> <<"object", <<>>>>, next |-> j + 1]
            ELSE ParseMembers(s, j, <<>>)
    ELSE ParseFail

ParseElements(s, i, acc) ==
    LET v == ParseValue(s, i)
        j == SkipWs(s, v.next)
    IN  IF ~v.ok \/ j > Len(s) THEN ParseFail
        ELSE IF s[j] = "]"
             THEN [ok |-> TRUE, val |-> <<"array", Append(acc, v.val)>>, next |-> j + 1]
        ELSE IF s[j] = ","
             THEN ParseElements(s, SkipWs(s, j + 1), Append(acc, v.val))
        ELSE ParseFail

ParseMembers(s, i, acc) ==
    LET k == IF i <= Len(s) /\ s[i] = "\"" THEN ParseChars(s, i + 1, <<>>) ELSE ParseFail
        c == SkipWs(s, k.next)
        v == IF k.ok /\ c <= Len(s) /\ s[c] = ":"
             THEN ParseValue(s, SkipWs(s, c + 1)) ELSE ParseFail
        j == SkipWs(s, v.next)
    IN  IF ~v.ok \/ j > Len(s) THEN ParseFail
        ELSE IF s[j] = "}"
             THEN [ok |-> TRUE, val |-> <<"object", Append(acc, <<k.val, v.val>>)>>, next |-> j + 1]
        ELSE IF s[j] = ","
             THEN ParseMembers(s, SkipWs(s, j + 1), Append(acc, <<k.val, v.val>>))
        ELSE ParseFail

InvalidJson == <<"error", "Invalid JSON response">>

\* JSON.parse(text): the value, or a SyntaxError
ParseJSON(text) ==
    LET v == ParseValue(text, SkipWs(text, 1))
    IN  IF v.ok /\ SkipWs(text, v.next) = Len(text) + 1 THEN v.val ELSE <<"SyntaxError">>

cleanComplianceResponse(rawResponse) ==
    LET jsonString == Trim(StripFences(rawResponse))
        parsedJSON == ParseJSON(jsonString)
    IN  IF parsedJSON = <<"SyntaxError">> THEN InvalidJson ELSE parsedJSON

\* ------------------------------------------------------------------------
\* Input validator: urlRegex
\* ------------------------------------------------------------------------
\* [-a-zA-Z0-9@:%._\+~#=]
HostChars == Letters \cup Digits \cup {"-", "@", ":", "%", ".", "_", "+", "~", "#", "="}

\* [a-zA-Z0-9()]
TldChars == Letters \cup Digits \cup {"(", ")"}

\* [-a-zA-Z0-9()@:%_\+.~#?&//=]
PathChars == Letters \cup Digits \cup
             {"-", "(", ")", "@", ":", "%", "_", "+", ".", "~", "#", "?", "&", "/", "="}

AllIn(s, from, to, class) == \A k \in from..to : s[k] \in class

\* the part of urlRegex after the scheme and the optional www., starting at a:
\* {1,256} host characters, a dot, {1,6} label characters, \b, path characters
HostAndPath(s, a) ==
    \E h \in 1..256 : \E t \in 1..6 :
        /\ a + h + t <= Len(s)
        /\ AllIn(s, a, a + h - 1, HostChars)
        /\ s[a + h] = "."
        /\ AllIn(s, a + h + 1, a + h + t, TldChars)
        /\ WordBoundary(s, a + h + t + 1)
        /\ AllIn(s, a + h + t + 1, Len(s), PathChars)

Http == <<"h", "t", "t", "p">>

Www == <<"w", "w", "w", ".">>

\* urlRegex.test(url)
urlRegex(s) ==
    \E n \in {4, 5} :
        /\ HasPrefix(s, Http)
        /\ n = 5 => (Len(s) >= 5 /\ s[5] = "s")
        /\ HasPrefix(Rest(s, n + 1), <<":", "/", "/">>)
        /\ \/ HostAndPath(s, n + 4)
           \/ HasPrefix(Rest(s, n + 4), Www) /\ HostAndPath(s, n + 8)

\* ------------------------------------------------------------------------
\* State
\* ------------------------------------------------------------------------
VARIABLES
    browser,     \* utils.ts module variable: 0 is null, else a launched browser
    browsers,    \* the browsers puppeteer.launch created: [alive, closes]
    pages,       \* per slot, the page of its getRenderedText call
    req,         \* per connection slot: the request in flight
    started,     \* requests received so far
    cleanIn,     \* text cleaner: the raw text
    cleanCur,    \* text cleaner: the text after the passes so far
    cleanPrev,   \* text cleaner: the text before the last pass
    passes,      \* text cleaner: passes applied
    evalX,       \* evaluator: the JSON text the completion is built from
    evalRaw,     \* evaluator: message content of the first choice
    evalPc,      \* evaluator: position in checkCompliance
    evalOut      \* evaluator: value returned or error thrown

cleanVars == <<cleanIn, cleanCur, cleanPrev, passes>>

evalVars == <<evalX, evalRaw, evalPc, evalOut>>

vars == <<browser, browsers, pages, req, started, cleanIn, cleanCur, cleanPrev, passes,
          evalX, evalRaw, evalPc, evalOut>>

\* connection slots: requests of different slots are handled concurrently
Slots == {1, 2}

\* request bodies
Scheme == Http \o <<":", "/", "/">>

UrlInputs == {
    Http \o <<"s", ":", "/", "/">> \o Www \o <<"a", ".", "c", "o", "/", "x", "?", "k", "=", "1">>,
    <<"n", "o", "t", "-", "a", "-", "u", "r", "l">>,
    Scheme \o <<"a", ".", "(">>,
    <<>> }

Bodies == {[has |-> FALSE, url |-> <<>>]} \cup {[has |-> TRUE, url |-> u] : u \in UrlInputs}

\* document.body.innerText of the rendered pages
RawTexts == { <<"a", ".", " ", " ", "b", "\n", "\n">> }

\* the five page operations getRenderedText awaits between newPage and close
PageOps == <<"setRequestInterception", "setUserAgent", "setExtraHTTPHeaders", "goto", "evaluate">>

PageOpPcs == {PageOps[k] : k \in DOMAIN PageOps}

\* let page: Page | null = null
NoPage == [browser |-> 0, open |-> FALSE, closes |-> 0]

NoRequest ==
    [pc |-> "idle", body |-> [has |-> FALSE, url |-> <<>>],
     theBrowser |-> 0, error |-> FALSE, text |-> <<>>,
     status |-> 0, sent |-> 0, reply |-> "none", stages |-> <<>>,
     escaped |-> FALSE, closing |-> 0]

HandlerInit ==
    /\ browser = 0
    /\ browsers = <<>>
    /\ pages = [r \in Slots |-> NoPage]
    /\ req = [r \in Slots |-> NoRequest]
    /\ started = 0

CleanIdle ==
    /\ cleanIn = <<>>
    /\ cleanCur = <<>>
    /\ cleanPrev = <<>>
    /\ passes = 0

EvalIdle ==
    /\ evalX = <<>>
    /\ evalRaw = <<>>
    /\ evalPc = "idle"
    /\ evalOut = <<"none">>

Init == HandlerInit /\ CleanIdle /\ EvalIdle

\* ------------------------------------------------------------------------
\* utils.ts: initBrowser, closeBrowser, getRenderedText
\* ------------------------------------------------------------------------
\* req.body passes the validation of the handler
Accepted(body) == body.has /\ body.url # <<>> /\ urlRegex(body.url)

\* initBrowser up to its first await: launch when there is no browser,
\* else return the existing one
initBrowser(rq) ==
    IF browser = 0
    THEN [rq EXCEPT !.pc = "launching"]
    ELSE [rq EXCEPT !.pc = "newPage", !.theBrowser = browser]

\* closeBrowser up to its await: nothing when there is no browser, else
\* browser.close() is issued on the current browser
closeBrowser(rq) ==
    IF browser = 0
    THEN [rq EXCEPT !.pc = "done"]
    ELSE [rq EXCEPT !.pc = "closingBrowser", !.closing = browser]

\* Start with the return after the 400 response missing: the handler goes on
\* to render
Start_NoReturn(r, body) ==
    /\ req[r].pc \in {"idle", "done"}
    /\ started < MaxRequests
    /\ started' = started + 1
    /\ LET fresh == [NoRequest EXCEPT !.body = body]
       IN  IF ~Accepted(body)
           THEN req' = [req EXCEPT ![r] =
                      initBrowser([fresh EXCEPT !.status = 400, !.sent = 1,
                                                !.reply = "Invalid URL format",
                                                !.stages = <<"Validating", "Error">>])]
           ELSE req' = [req EXCEPT ![r] =
                      initBrowser([fresh EXCEPT !.stages = <<"Validating", "Rendering">>])]
    /\ pages' = [pages EXCEPT ![r] = NoPage]
    /\ UNCHANGED <<browser, browsers, cleanVars, evalVars>>

\* the handler's first synchronous stretch: validation, then getRenderedText
\* up to the first await
Start(r, body) ==
    /\ req[r].pc \in {"idle", "done"}
    /\ started < MaxRequests
    /\ started' = started + 1
    /\ LET fresh == [NoRequest EXCEPT !.body = body]
       IN  IF ~Accepted(body)
           THEN req' = [req EXCEPT ![r] =
                      [fresh EXCEPT !.pc = "done", !.status = 400, !.sent = 1,
                                    !.reply = "Invalid URL format",
                                    !.stages = <<"Validating", "Error">>]]
           ELSE req' = [req EXCEPT ![r] =
                      initBrowser([fresh EXCEPT !.stages = <<"Validating", "Rendering">>])]
    /\ pages' = [pages EXCEPT ![r] = NoPage]
    /\ UNCHANGED <<browser, browsers, cleanVars, evalVars>>

\* the handler after getRenderedText settled: the response, then the finally
\* block's closeBrowser up to its await
Respond(r) ==
    /\ req[r].pc = "respond"
    /\ LET answered ==
            IF req[r].error
            THEN [req[r] EXCEPT !.status = 500, !.sent = @ + 1,
                                !.reply = "Error rendering the page",
                                !.stages = Append(@, "Error")]
            ELSE [req[r] EXCEPT !.status = 200, !.sent = @ + 1,
                                !.reply = "text",
                                !.stages = Append(@, "Responding")]
       IN  req' = [req EXCEPT ![r] = closeBrowser(answered)]
    /\ browsers' = IF req'[r].pc = "closingBrowser"
                   THEN [browsers EXCEPT ![req'[r].closing].closes = @ + 1]
                   ELSE browsers
    /\ UNCHANGED <<browser, pages, started, cleanVars, evalVars>>

\* puppeteer.launch settled: the new browser is assigned to the module
\* variable and returned, or the rejection leaves getRenderedText (no page)
LaunchDone(r, ok) ==
    /\ req[r].pc = "launching"
    /\ IF ok
       THEN /\ browsers' = Append(browsers, [alive |-> TRUE, closes |-> 0])
            /\ browser' = Len(browsers) + 1
            /\ req' = [req EXCEPT ![r].pc = "newPage", ![r].theBrowser = Len(browsers) + 1]
       ELSE /\ req' = [req EXCEPT ![r].pc = "respond", ![r].error = TRUE]
            /\ UNCHANGED <<browser, browsers>>
    /\ UNCHANGED <<pages, started, cleanVars, evalVars>>

\* theBrowser.newPage settled: a page of that browser, and the first page
\* operation is issued; on a browser that is gone it can only reject
NewPageDone(r, ok) ==
    /\ req[r].pc = "newPage"
    /\ ok => browsers[req[r].theBrowser].alive
    /\ IF ok
       THEN /\ pages' = [pages EXCEPT ![r] =
                            [browser |-> req[r].theBrowser, open |-> TRUE, closes |-> 0]]
            /\ req' = [req EXCEPT ![r].pc = PageOps[1]]
       ELSE /\ req' = [req EXCEPT ![r].pc = "respond", ![r].error = TRUE]
            /\ UNCHANGED pages
    /\ UNCHANGED <<browser, browsers, started, cleanVars, evalVars>>

\* PageOpDone with page.close() on the success path only (no finally block)
PageOpDone_NoFinally(r, ok, rawText) ==
    /\ req[r].pc \in PageOpPcs
    /\ ok => pages[r].open
    /\ LET k == CHOOSE i \in DOMAIN PageOps : PageOps[i] = req[r].pc
       IN  IF ~ok
           THEN /\ req' = [req EXCEPT ![r].pc = "respond", ![r].error = TRUE]
                /\ pages' = pages
           ELSE IF k < Len(PageOps)
           THEN /\ req' = [req EXCEPT ![r].pc = PageOps[k + 1]]
                /\ pages' = pages
           ELSE /\ req' = [req EXCEPT ![r].pc = "pageClose",
                                      ![r].text = cleanText(rawText),
                                      ![r].stages = Append(@, "Cleaning")]
                /\ pages' = [pages EXCEPT ![r].closes = @ + 1]
    /\ UNCHANGED <<browser, browsers, started, cleanVars, evalVars>>

\* one of the five page operations settled: the next one is issued, the text
\* is cleaned after the last, and a rejection goes to catch; leaving the try
\* block either way runs finally, where page.close() is issued
PageOpDone(r, ok, rawText) ==
    /\ req[r].pc \in PageOpPcs
    /\ ok => pages[r].open
    /\ LET k == CHOOSE i \in DOMAIN PageOps : PageOps[i] = req[r].pc
       IN  IF ~ok
           THEN /\ req' = [req EXCEPT ![r].pc = "pageClose", ![r].error = TRUE]
                /\ pages' = [pages EXCEPT ![r].closes = @ + 1]
           ELSE IF k < Len(PageOps)
           THEN /\ req' = [req EXCEPT ![r].pc = PageOps[k + 1]]
                /\ pages' = pages
           ELSE /\ req' = [req EXCEPT ![r].pc = "pageClose",
                                      ![r].text = cleanText(rawText),
                                      ![r].stages = Append(@, "Cleaning")]
                /\ pages' = [pages EXCEPT ![r].closes = @ + 1]
    /\ UNCHANGED <<browser, browsers, started, cleanVars, evalVars>>

\* page.close() settled: the page is gone either way (a rejection means the
\* target was already lost); a rejection replaces the outcome of the call
PageCloseDone(r, ok) ==
    /\ req[r].pc = "pageClose"
    /\ ok => pages[r].open
    /\ pages' = [pages EXCEPT ![r].open = FALSE]
    /\ req' = [req EXCEPT ![r].pc = "respond", ![r].error = @ \/ ~ok]
    /\ UNCHANGED <<browser, browsers, started, cleanVars, evalVars>>

\* CloseBrowserDone without the assignment browser = null
CloseBrowserDone_KeepsReference(r, ok) ==
    /\ req[r].pc = "closingBrowser"
    /\ IF ok
       THEN /\ browsers' = [browsers EXCEPT ![req[r].closing].alive = FALSE]
            /\ pages' = [s \in Slots |->
                            IF pages[s].browser = req[r].closing
                            THEN [pages[s] EXCEPT !.open = FALSE] ELSE pages[s]]
            /\ browser' = browser
            /\ req' = [req EXCEPT ![r].pc = "done"]
       ELSE /\ req' = [req EXCEPT ![r].pc = "done", ![r].escaped = TRUE]
            /\ UNCHANGED <<browser, browsers, pages>>
    /\ UNCHANGED <<started, cleanVars, evalVars>>

\* browser.close() settled inside closeBrowser: the browser and its pages are
\* gone and the module variable is cleared, or the rejection leaves the
\* handler through its finally block
CloseBrowserDone(r, ok) ==
    /\ req[r].pc = "closingBrowser"
    /\ IF ok
       THEN /\ browsers' = [browsers EXCEPT ![req[r].closing].alive = FALSE]
            /\ pages' = [s \in Slots |->
                            IF pages[s].browser = req[r].closing
                            THEN [pages[s] EXCEPT !.open = FALSE] ELSE pages[s]]
            /\ browser' = 0
            /\ req' = [req EXCEPT ![r].pc = "done"]
       ELSE /\ req' = [req EXCEPT ![r].pc = "done", ![r].escaped = TRUE]
            /\ UNCHANGED <<browser, browsers, pages>>
    /\ UNCHANGED <<started, cleanVars, evalVars>>

Next ==
    \/ \E r \in Slots : \E body \in Bodies : Start(r, body)
    \/ \E r \in Slots : \E ok \in BOOLEAN : LaunchDone(r, ok)
    \/ \E r \in Slots : \E ok \in BOOLEAN : NewPageDone(r, ok)
    \/ \E r \in Slots : \E ok \in BOOLEAN : \E t \in RawTexts : PageOpDone(r, ok, t)
    \/ \E r \in Slots : \E ok \in BOOLEAN : PageCloseDone(r, ok)
    \/ \E r \in Slots : Respond(r)
    \/ \E r \in Slots : \E ok \in BOOLEAN : CloseBrowserDone(r, ok)

Spec == Init /\ [][Next]_vars

\* ------------------------------------------------------------------------
\* The text cleaner applied repeatedly to one raw text
\* ------------------------------------------------------------------------
CleanAlphabet == {"a", "1", " ", "\n", "\t", "."}

\* passes of the cleaner applied to one text
MaxPasses == 2

RawInputs == UNION {[1..n -> CleanAlphabet] : n \in 0..MaxLen}

InitClean ==
    /\ HandlerInit
    /\ EvalIdle
    /\ cleanIn \in RawInputs
    /\ cleanCur = cleanIn
    /\ cleanPrev = cleanIn
    /\ passes = 0

Clean ==
    /\ passes < MaxPasses
    /\ cleanPrev' = cleanCur
    /\ cleanCur' = cleanText(cleanCur)
    /\ passes' = passes + 1
    /\ UNCHANGED <<cleanIn, browser, browsers, pages, req, started, evalVars>>

NextClean == Clean

SpecClean == InitClean /\ [][NextClean]_vars

\* ------------------------------------------------------------------------
\* checkCompliance on the completions the model can return
\* ------------------------------------------------------------------------
Quote == "\""

Tokens == {<<"a">>, <<" ">>, Fence, FenceJson}

RECURSIVE Flatten(_)
Flatten(ts) == IF ts = <<>> THEN <<>> ELSE Head(ts) \o Flatten(Tail(ts))

Contents == {Flatten(ts) : ts \in UNION {[1..n -> Tokens] : n \in 0..MaxTokens}}

\* JSON texts: a string, an array of one string, an object with one member;
\* and the bare content, which is not JSON
JsonTexts ==
    {<<Quote>> \o c \o <<Quote>> : c \in Contents}
    \cup {<<"[", Quote>> \o c \o <<Quote, "]">> : c \in Contents}
    \cup {<<"{", Quote, "k", Quote, ":", " ", Quote>> \o c \o <<Quote, "}">> : c \in Contents}

Completions == JsonTexts \cup Contents

\* X inside a Markdown json fence
Fenced(X) == FenceJson \o <<"\n">> \o X \o <<"\n">> \o Fence

InitEval ==
    /\ HandlerInit
    /\ CleanIdle
    /\ evalX \in Completions
    /\ evalRaw \in {evalX, Fenced(evalX)}
    /\ evalPc = "idle"
    /\ evalOut = <<"none">>

\* checkCompliance up to its await: the completion request is sent
CheckComplianceCall ==
    /\ evalPc = "idle"
    /\ evalPc' = "awaiting"
    /\ UNCHANGED <<evalX, evalRaw, evalOut, browser, browsers, pages, req, started, cleanVars>>

\* the completion settled: the first choice's content goes through
\* cleanComplianceResponse, or the rejection propagates
CheckComplianceDone(ok) ==
    /\ evalPc = "awaiting"
    /\ evalPc' = "done"
    /\ evalOut' = IF ok THEN cleanComplianceResponse(evalRaw)
                  ELSE <<"error", "completion request failed">>
    /\ UNCHANGED <<evalX, evalRaw, browser, browsers, pages, req, started, cleanVars>>

NextEval ==
    \/ CheckComplianceCall
    \/ \E ok \in BOOLEAN : CheckComplianceDone(ok)

SpecEval == InitEval /\ [][NextEval]_vars

\* ------------------------------------------------------------------------
\* Properties
\* ------------------------------------------------------------------------
InGetRenderedText(r) == req[r].pc \in {"newPage", "pageClose"} \cup PageOpPcs

AfterGetRenderedText(r) == req[r].pc \in {"respond", "closingBrowser", "done"}

\* C1: after two requests that found no browser have completed, exactly one
\* browser has been launched, it is alive and referenced by the module
\* variable, and no live browser is ever left unreferenced.
C1_SingleBrowser ==
    /\ \A b \in DOMAIN browsers : browsers[b].alive => browser = b
    /\ (started = 2 /\ \A r \in Slots : req[r].pc = "done" /\ req[r].status = 200)
          => /\ Len(browsers) = 1
             /\ browser = 1
             /\ browsers[1].alive

\* C2: no step of request handling closes the shared browser: close() is not
\* issued on any browser, a live browser stays alive, and a set reference
\* stays set.
C2_BrowserNeverClosed ==
    [][ /\ \A b \in DOMAIN browsers :
              /\ browsers'[b].closes = browsers[b].closes
              /\ browsers[b].alive => browsers'[b].alive
        /\ browser # 0 => browser' # 0 ]_vars

\* C3: page.close() is issued exactly once on the page of a getRenderedText
\* call, on every exit path and not before; once getRenderedText has settled
\* (so before any response) the page is no longer open.
C3_PageClosedOnce ==
    \A r \in Slots :
        /\ pages[r].closes <= 1
        /\ (req[r].pc \in PageOpPcs) => (pages[r].browser # 0 /\ pages[r].closes = 0)
        /\ (req[r].pc = "pageClose") => pages[r].closes = 1
        /\ (AfterGetRenderedText(r) /\ pages[r].browser # 0)
              => (pages[r].closes = 1 /\ ~pages[r].open)
        /\ (req[r].sent > 0) => ~pages[r].open

\* a request whose render failed after its page was opened has settled
C3_Witness ==
    \E r \in Slots :
        /\ req[r].pc = "respond"
        /\ req[r].error
        /\ pages[r].browser # 0
        /\ pages[r].closes = 1

C4_Rejected(r) ==
    /\ req[r].pc = "done"
    /\ req[r].status = 400
    /\ req[r].reply = "Invalid URL format"
    /\ req[r].sent = 1
    /\ req[r].theBrowser = 0
    /\ req[r].closing = 0
    /\ pages[r] = NoPage

C4_StartLeavesBrowserAlone ==
    \A r \in Slots :
        (started' = started + 1 /\ req'[r] # req[r] /\ ~Accepted(req'[r].body))
           => /\ browser' = browser
              /\ browsers' = browsers
              /\ \A s \in Slots \ {r} : pages'[s] = pages[s]
              /\ ~pages'[r].open

\* C4: a request without a url or with a url the pattern rejects is answered
\* 400 "Invalid URL format" at once and touches nothing: it never holds a
\* browser or a page, never issues a close, and the step that answers it
\* leaves the browser, the launched browsers and the other pages as they were.
C4_RejectNoEffects ==
    /\ [](\A r \in Slots : (req[r].pc # "idle" /\ ~Accepted(req[r].body)) => C4_Rejected(r))
    /\ [][C4_StartLeavesBrowserAlone]_vars

\* a rejected request next to a request that is rendering on a live browser
C4_Witness ==
    \E r, s \in Slots :
        /\ req[r].status = 400
        /\ req[r].body.has
        /\ req[s].pc \in PageOpPcs
        /\ browser # 0
        /\ browsers[browser].alive

\* C5: a 200 response is sent only by a request that went through the stages
\* Validating, Rendering, Cleaning, Evaluating, Responding in this order, and
\* its body is the findings object.
C5_EvaluatedBefore200 ==
    \A r \in Slots :
        req[r].status = 200 =>
            /\ req[r].stages = <<"Validating", "Rendering", "Cleaning", "Evaluating", "Responding">>
            /\ req[r].reply = "findings"

\* C6: no exception escapes the handler, a finished request has sent exactly
\* one response, and a failure after validation is answered 500.
C6_AllFailuresCaught ==
    \A r \in Slots :
        /\ ~req[r].escaped
        /\ req[r].pc = "done" => req[r].sent = 1
        /\ (req[r].pc = "done" /\ req[r].error) => req[r].status = 500

C7_Step(r) ==
    /\ (req[r].pc = "closingBrowser" /\ req'[r].pc = "done" /\ ~req'[r].escaped)
          => /\ browser' = 0
             /\ ~browsers'[req[r].closing].alive
             /\ browsers[req[r].closing].closes >= 1
    /\ (req[r].pc = "respond" /\ req'[r].pc # "respond" /\ browser = 0)
          => /\ req'[r].pc = "done"
             /\ UNCHANGED <<browser, browsers, pages>>
    /\ (req[r].pc = "respond" /\ req'[r].pc # "respond" /\ browser # 0)
          => /\ req'[r].pc = "closingBrowser"
             /\ req'[r].closing = browser
             /\ browsers'[browser].closes = browsers[browser].closes + 1

\* C7: a closeBrowser call that returns leaves browser null and the browser it
\* referenced closed; with no browser it issues no close and changes nothing
\* (so the second of two calls in a row is a no-op); with a browser it issues
\* one close on it.
C7_CloseBrowser == [][\A r \in Slots : C7_Step(r)]_vars

\* one request's closeBrowser closed the browser, the other's found none
C7_Witness ==
    \E r, s \in Slots :
        /\ req[r].pc = "done" /\ req[r].closing # 0 /\ ~req[r].escaped
        /\ ~browsers[req[r].closing].alive
        /\ req[s].pc = "done" /\ req[s].status = 200 /\ req[s].closing = 0
        /\ browser = 0

\* C8: for a valid JSON text X, cleanComplianceResponse of X inside a json
\* fence returns what parsing X returns.
C8_FenceRoundTrip ==
    (/\ evalPc = "done"
     /\ evalOut # <<"error", "completion request failed">>
     /\ evalRaw = Fenced(evalX)
     /\ ParseJSON(evalX) # <<"SyntaxError">>)
        => evalOut = ParseJSON(evalX)

\* C9: cleaning a cleaned text changes nothing.
C9_CleanIdempotent == passes = 2 => cleanCur = cleanPrev

\* C10: a request inside getRenderedText holds a live browser on which no
\* close() was issued, its page stays open until it closes it itself, and
\* close() is issued at most once on a browser.
C10_NoUseAfterClose ==
    /\ \A b \in DOMAIN browsers : browsers[b].closes <= 1
    /\ \A r \in Slots :
          /\ InGetRenderedText(r) =>
                (browsers[req[r].theBrowser].alive /\ browsers[req[r].theBrowser].closes = 0)
          /\ req[r].pc \in PageOpPcs => pages[r].open
====
